---- MODULE Spec2Model ----
(***************************************************************************)
(* A model of the DNSSEC zone-signing core of domain-sign (src/sign.rs):   *)
(* the canonical record store (SortedRecords), its family / rrset views,   *)
(* the zone-cut-aware traversal, the signer and the NSEC chain builder;    *)
(* and of the host lookup of the resolver (src/resolv/lookup/host.rs):     *)
(* lookup_host, search_host and FoundHosts.                                *)
(***************************************************************************)
EXTENDS Integers, Sequences, FiniteSets, TLC

VARIABLES
    records,    \* SortedRecords.records: the store's record sequence
    ret,        \* the last operation: its name, its arguments, its result
    resolver,   \* the resolver search_host is given: its search list
    task,       \* the search_host future: where it stands and what it holds
    wire        \* the queries made and what each join of two came back with

\* the variables of the host lookup
hostVars == <<resolver, task, wire>>

vars == <<records, ret, resolver, task, wire>>

----------------------------------------------------------------------------
(* Bounds *)

\* largest number of records the store is grown to
MaxRecords == 4
\* longest iterator handed to extend / from_iter
MaxIter == 3
\* longest vector handed to From<Vec<Record>>
MaxVec == 2
\* longest search list of the resolver
MaxSearch == 3

----------------------------------------------------------------------------
(* Names, classes, record types, records *)

\* domain_core::iana::Class
ClassIn == 1
ClassCh == 3

\* domain_core::iana::Rtype
RtypeA == 1
RtypeNs == 2
RtypeSoa == 6
RtypeAaaa == 28
RtypeDs == 43
RtypeRrsig == 46
RtypeNsec == 47

\* A domain name: its labels in canonical (lower-case) form, listed from the
\* root down, and the spelling variant `sp` of the name as it was written
\* (letter case). Comparisons of names never look at the spelling; clones
\* keep it.
Nm(labels, sp) == [labels |-> labels, sp |-> sp]

\* Record::new(owner, class, ttl, data); rtype is the type tag of the data,
\* data stands for its canonical-form rdata bytes.
Rec(owner, class, rtype, ttl, data) ==
    [owner |-> owner, class |-> class, rtype |-> rtype, ttl |-> ttl,
     data |-> data]

\* FamilyName::new(owner, class)
FamilyName(owner, class) == [owner |-> owner, class |-> class]

\* ToDname::name_eq: case-insensitive equality of names
NameEq(a, b) == a.labels = b.labels

\* ToDname::ends_with: b is a itself or an ancestor of a
EndsWith(a, b) ==
    /\ Len(b.labels) <= Len(a.labels)
    /\ SubSeq(a.labels, 1, Len(b.labels)) = b.labels

\* three-way comparison of integers (Ord::cmp): -1 less, 0 equal, 1 greater
IntCmp(a, b) == IF a < b THEN -1 ELSE IF a > b THEN 1 ELSE 0

\* ToDname::name_cmp: the canonical order of names, label by label from
\* the root, a name before its descendants
RECURSIVE LabelsCmp(_, _)
LabelsCmp(a, b) ==
    IF a = <<>> /\ b = <<>> THEN 0
    ELSE IF a = <<>> THEN -1
    ELSE IF b = <<>> THEN 1
    ELSE IF Head(a) # Head(b) THEN IntCmp(Head(a), Head(b))
    ELSE LabelsCmp(Tail(a), Tail(b))

NameCmp(a, b) == LabelsCmp(a.labels, b.labels)

\* CanonicalOrd::canonical_cmp for Record: owner name, then record type,
\* then canonical rdata, within one class; the TTL takes no part. The class
\* is compared before the owner: a family is a contiguous run of one owner
\* and class and the records of a zone (one class, the apex and the names
\* below it) are contiguous, which no other place of the class gives.
CanonicalCmp(a, b) ==
    IF a.class # b.class THEN IntCmp(a.class, b.class)
    ELSE IF NameCmp(a.owner, b.owner) # 0 THEN NameCmp(a.owner, b.owner)
    ELSE IF a.rtype # b.rtype THEN IntCmp(a.rtype, b.rtype)
    ELSE IntCmp(a.data, b.data)

----------------------------------------------------------------------------
(* The records the operations are tried on *)

Root == Nm(<<>>, 0)
N1 == Nm(<<1>>, 0)
N1u == Nm(<<1>>, 1)
N11 == Nm(<<1, 1>>, 0)
N12 == Nm(<<1, 2>>, 0)
N2 == Nm(<<2>>, 0)

Pool ==
    { Rec(Root, ClassIn, RtypeSoa, 1, 1),
      Rec(N1, ClassIn, RtypeSoa, 1, 1),
      Rec(N1, ClassIn, RtypeSoa, 2, 2),
      Rec(N1, ClassIn, RtypeNs, 1, 1),
      Rec(N1, ClassIn, RtypeA, 1, 1),
      Rec(N1u, ClassIn, RtypeA, 2, 1),
      Rec(N1, ClassIn, RtypeA, 2, 2),
      Rec(N1, ClassIn, RtypeRrsig, 1, 1),
      Rec(N1, ClassIn, RtypeDs, 1, 1),
      Rec(N1, ClassCh, RtypeA, 1, 1),
      Rec(N11, ClassIn, RtypeNs, 1, 1),
      Rec(N11, ClassIn, RtypeNsec, 1, 1),
      Rec(N12, ClassIn, RtypeA, 1, 1),
      Rec(N2, ClassIn, RtypeA, 1, 1),
      Rec(N2, ClassIn, RtypeAaaa, 1, 1) }

\* the apex names sign and nsecs are called with
Apexes ==
    { FamilyName(Root, ClassIn), FamilyName(N1, ClassIn),
      FamilyName(N1u, ClassIn), FamilyName(N1, ClassCh) }

\* sequences over S of length at most n
SeqsUpTo(S, n) == UNION { [1..k -> S] : k \in 0..n }

----------------------------------------------------------------------------
(* SortedRecords: insert, from_iter, extend, From<Vec> *)

\* slice::binary_search_by as called by insert: Ok(index) of a stored record
\* canonically equal to record, or Err(index) of the insertion point
\* (indices count from 1 here)
RECURSIVE BinarySearchLoop(_, _, _, _)
BinarySearchLoop(s, record, base, size) ==
    IF size > 1
    THEN LET half == size \div 2
             mid == base + half
         IN  BinarySearchLoop(s, record,
                 IF CanonicalCmp(s[mid], record) = 1 THEN base ELSE mid,
                 size - half)
    ELSE LET cmp == CanonicalCmp(s[base], record)
         IN  IF cmp = 0 THEN [ok |-> TRUE, idx |-> base]
             ELSE [ok |-> FALSE,
                   idx |-> base + (IF cmp = -1 THEN 1 ELSE 0)]

BinarySearch(s, record) ==
    IF s = <<>> THEN [ok |-> FALSE, idx |-> 1]
    ELSE BinarySearchLoop(s, record, 1, Len(s))

\* a Vec::push in the place of the insert at the index found
VecPush(s, idx, record) == Append(s, record)

\* Vec::insert(idx, record)
VecInsert(s, idx, record) ==
    SubSeq(s, 1, idx - 1) \o <<record>> \o SubSeq(s, idx, Len(s))

\* an insert that overwrites the stored record with its equal and hands the
\* stored one back
InsertRecordReplace(s, record) ==
    LET idx == BinarySearch(s, record)
    IN  IF idx.ok
        THEN [records |-> [s EXCEPT ![idx.idx] = record],
              out |-> [tag |-> "Err", record |-> s[idx.idx]]]
        ELSE [records |-> VecInsert(s, idx.idx, record),
              out |-> [tag |-> "Ok", record |-> record]]

\* SortedRecords::insert: the store afterwards and the returned Result
InsertRecord(s, record) ==
    LET idx == BinarySearch(s, record)
    IN  IF idx.ok
        THEN [records |-> s, out |-> [tag |-> "Err", record |-> record]]
        ELSE [records |-> VecInsert(s, idx.idx, record),
              out |-> [tag |-> "Ok", record |-> record]]

\* the items of iter inserted last to first
RECURSIVE InsertAllLastFirst(_, _)
InsertAllLastFirst(s, iter) ==
    IF iter = <<>> THEN s
    ELSE InsertAllLastFirst(InsertRecord(s, iter[Len(iter)]).records,
                            SubSeq(iter, 1, Len(iter) - 1))

\* the loop of extend and from_iter: insert every item, ignore the results
RECURSIVE InsertAll(_, _)
InsertAll(s, iter) ==
    IF iter = <<>> THEN s
    ELSE InsertAll(InsertRecord(s, Head(iter)).records, Tail(iter))

\* FromIterator::from_iter
FromIter(iter) == InsertAll(<<>>, iter)

\* slice::sort_by(canonical_cmp): a stable sort
RECURSIVE StableInsert(_, _)
StableInsert(sorted, r) ==
    IF sorted = <<>> THEN <<r>>
    ELSE IF CanonicalCmp(Head(sorted), r) = 1 THEN <<r>> \o sorted
    ELSE <<Head(sorted)>> \o StableInsert(Tail(sorted), r)

RECURSIVE SortBy(_)
SortBy(src) ==
    IF src = <<>> THEN <<>>
    ELSE StableInsert(SortBy(SubSeq(src, 1, Len(src) - 1)), src[Len(src)])

\* From<Vec<Record>>::from
FromVec(src) == SortBy(src)

----------------------------------------------------------------------------
(* Family and Rrset views, RecordsIter, RrsetIter, FamilyIter *)

\* Family::owner, Rrset::owner
Owner(slice) == slice[1].owner

\* Family::class, Rrset::class
ClassOf(slice) == slice[1].class

\* Rrset::rtype
RrsetRtype(slice) == slice[1].rtype

\* an rrset TTL taken from the last member
RrsetTtlLast(slice) == slice[Len(slice)].ttl

\* Rrset::ttl
RrsetTtl(slice) == slice[1].ttl

\* Family::family_name followed by FamilyName::to_name
FamilyNameOf(slice) == FamilyName(Owner(slice), ClassOf(slice))

\* PartialEq<FamilyName> for FamilyName
FamilyNameEq(a, b) == NameEq(a.owner, b.owner) /\ a.class = b.class

\* a comparison of a family name with a record that leaves the class out
FamilyNameEqRecordNoClass(name, record) == NameEq(name.owner, record.owner)

\* PartialEq<Record> for FamilyName
FamilyNameEqRecord(name, record) ==
    NameEq(name.owner, record.owner) /\ name.class = record.class

\* a zone-cut test that forgets to except the apex
IsZoneCutAnyNs(family, apex) ==
    \E i \in 1..Len(family) : family[i].rtype = RtypeNs

\* Family::is_zone_cut
IsZoneCut(family, apex) ==
    /\ ~FamilyNameEq(FamilyNameOf(family), apex)
    /\ \E i \in 1..Len(family) : family[i].rtype = RtypeNs

\* an in-zone test by name equality in the place of ends_with
IsInZoneExact(family, apex) ==
    NameEq(Owner(family), apex.owner) /\ ClassOf(family) = apex.class

\* Family::is_in_zone
IsInZone(family, apex) ==
    EndsWith(Owner(family), apex.owner) /\ ClassOf(family) = apex.class

\* a skip_before that stops at the first record in the zone of the apex
RECURSIVE SkipBeforeInZone(_, _)
SkipBeforeInZone(slice, apex) ==
    IF slice = <<>> THEN slice
    ELSE IF EndsWith(Head(slice).owner, apex.owner)
            /\ Head(slice).class = apex.class THEN slice
    ELSE SkipBeforeInZone(Tail(slice), apex)

\* RecordsIter::skip_before: the slice the iterator is left with
RECURSIVE SkipBefore(_, _)
SkipBefore(slice, apex) ==
    IF slice = <<>> THEN slice
    ELSE IF FamilyNameEqRecord(apex, Head(slice)) THEN slice
    ELSE SkipBefore(Tail(slice), apex)

\* a family loop that also stops where the record type changes
RECURSIVE FamilyEndByType(_, _)
FamilyEndByType(slice, end) ==
    IF end + 1 > Len(slice) THEN end
    ELSE IF ~NameEq(slice[end + 1].owner, slice[1].owner)
            \/ slice[end + 1].rtype # slice[1].rtype
            \/ slice[end + 1].class # slice[1].class THEN end
    ELSE FamilyEndByType(slice, end + 1)

\* the `end` the loop of RecordsIter::next stops at
RECURSIVE FamilyEnd(_, _)
FamilyEnd(slice, end) ==
    IF end + 1 > Len(slice) THEN end
    ELSE IF ~NameEq(slice[end + 1].owner, slice[1].owner)
            \/ slice[end + 1].class # slice[1].class THEN end
    ELSE FamilyEnd(slice, end + 1)

\* Iterator::next for RecordsIter, on a non-empty slice: split_at(end)
RecordsIterNext(slice) ==
    LET end == FamilyEnd(slice, 1)
    IN  [res |-> SubSeq(slice, 1, end),
         slice |-> SubSeq(slice, end + 1, Len(slice))]

\* an rrset loop that leaves the class out
RECURSIVE RrsetEndNoClass(_, _)
RrsetEndNoClass(slice, end) ==
    IF end + 1 > Len(slice) THEN end
    ELSE IF ~NameEq(slice[end + 1].owner, slice[1].owner)
            \/ slice[end + 1].rtype # slice[1].rtype THEN end
    ELSE RrsetEndNoClass(slice, end + 1)

\* the `end` the loop of RrsetIter::next stops at
RECURSIVE RrsetEnd(_, _)
RrsetEnd(slice, end) ==
    IF end + 1 > Len(slice) THEN end
    ELSE IF ~NameEq(slice[end + 1].owner, slice[1].owner)
            \/ slice[end + 1].rtype # slice[1].rtype
            \/ slice[end + 1].class # slice[1].class THEN end
    ELSE RrsetEnd(slice, end + 1)

\* Iterator::next for RrsetIter, on a non-empty slice
RrsetIterNext(slice) ==
    LET end == RrsetEnd(slice, 1)
    IN  [res |-> SubSeq(slice, 1, end),
         slice |-> SubSeq(slice, end + 1, Len(slice))]

\* the `end` the loop of FamilyIter::next stops at
RECURSIVE FamilyRrsetEnd(_, _)
FamilyRrsetEnd(slice, end) ==
    IF end + 1 > Len(slice) THEN end
    ELSE IF slice[end + 1].rtype # slice[1].rtype THEN end
    ELSE FamilyRrsetEnd(slice, end + 1)

\* Iterator::next for FamilyIter, on a non-empty slice
FamilyIterNext(slice) ==
    LET end == FamilyRrsetEnd(slice, 1)
    IN  [res |-> SubSeq(slice, 1, end),
         slice |-> SubSeq(slice, end + 1, Len(slice))]

\* everything a RecordsIter over slice yields, in order
RECURSIVE CollectFamilies(_)
CollectFamilies(slice) ==
    IF slice = <<>> THEN <<>>
    ELSE LET nx == RecordsIterNext(slice)
         IN  <<nx.res>> \o CollectFamilies(nx.slice)

\* everything an RrsetIter over slice yields, in order
RECURSIVE CollectRrsets(_)
CollectRrsets(slice) ==
    IF slice = <<>> THEN <<>>
    ELSE LET nx == RrsetIterNext(slice)
         IN  <<nx.res>> \o CollectRrsets(nx.slice)

\* everything a FamilyIter over a family's slice yields, in order
RECURSIVE CollectFamilyRrsets(_)
CollectFamilyRrsets(slice) ==
    IF slice = <<>> THEN <<>>
    ELSE LET nx == FamilyIterNext(slice)
         IN  <<nx.res>> \o CollectFamilyRrsets(nx.slice)

\* SortedRecords::families, run to the end
Families(s) == CollectFamilies(s)

\* SortedRecords::rrsets, run to the end
Rrsets(s) == CollectRrsets(s)

None == <<>>
Some(x) == <<x>>

\* the loop of find_soa over what the RrsetIter still holds
RECURSIVE FindSoaLoop(_)
FindSoaLoop(slice) ==
    IF slice = <<>> THEN None
    ELSE LET nx == RrsetIterNext(slice)
         IN  IF RrsetRtype(nx.res) = RtypeSoa THEN Some(nx.res)
             ELSE FindSoaLoop(nx.slice)

\* a find_soa that gives up after the first rrset
FindSoaFirstOnly(s) ==
    IF s = <<>> THEN None
    ELSE LET nx == RrsetIterNext(s)
         IN  IF RrsetRtype(nx.res) = RtypeSoa THEN Some(nx.res) ELSE None

\* SortedRecords::find_soa
FindSoa(s) == FindSoaLoop(s)

----------------------------------------------------------------------------
(* The signing capability (trait SigningKey), as sign uses it *)

\* A key is described by the number of the call that fails (0: none does)
\* and by whether its answers vary from call to call. `calls` is the log of
\* the calls made so far.
KeyFails(key, calls) == key.failAt = Len(calls) + 1

\* the answer to the next call, were it to succeed
KeyAnswer(key, calls) == IF key.vary THEN Len(calls) + 1 ELSE 0

\* K::Error as returned by the failing call
KeyError(method, calls) == [method |-> method, call |-> Len(calls) + 1]

\* the keys sign is tried with
MaxFailAt == 6

Keys ==
    { [failAt |-> f, vary |-> FALSE] : f \in 0..MaxFailAt }
        \cup { [failAt |-> 0, vary |-> TRUE] }

\* the validity windows sign is tried with
Windows == { [expiration |-> 2, inception |-> 1] }

----------------------------------------------------------------------------
(* SortedRecords::sign *)

\* Record::compose_canonical: the canonical form the signature covers
ComposeCanonical(record) ==
    [owner |-> record.owner.labels, class |-> record.class,
     rtype |-> record.rtype, ttl |-> record.ttl, data |-> record.data]

RECURSIVE ComposeAll(_)
ComposeAll(slice) ==
    IF slice = <<>> THEN <<>>
    ELSE <<ComposeCanonical(Head(slice))>> \o ComposeAll(Tail(slice))

\* ToDname::rrsig_label_count (no wildcard owners here)
RrsigLabelCount(name) == Len(name.labels)

\* Rrsig::new(...), as record data
Rrsig(rtype, alg, labels, ttl, exp, inc, keyTag, signer, sig) ==
    [type_covered |-> rtype, algorithm |-> alg, labels |-> labels,
     original_ttl |-> ttl, expiration |-> exp, inception |-> inc,
     key_tag |-> keyTag, signer_name |-> signer, signature |-> sig]

\* a body of the rrset loop that asks for the key tag before the algorithm
SignRrsetSwapped(name, rrset, apex, window, key, st) ==
    LET c0 == st.calls
        c1 == Append(c0, [method |-> "key_tag", buf |-> None])
        c2 == Append(c1, [method |-> "algorithm", buf |-> None])
        tag == KeyAnswer(key, c0)
        alg == KeyAnswer(key, c1)
        data == Rrsig(RrsetRtype(rrset), alg, RrsigLabelCount(name.owner),
                      RrsetTtl(rrset), window.expiration, window.inception,
                      tag, apex.owner, None)
        buf == [rdata |-> data, records |-> ComposeAll(rrset)]
        c3 == Append(c2, [method |-> "sign", buf |-> Some(buf)])
        sig == [buf |-> buf, answer |-> KeyAnswer(key, c2)]
        rrsig == [owner |-> name.owner, class |-> name.class,
                  ttl |-> RrsetTtl(rrset),
                  data |-> [data EXCEPT !.signature = Some(sig)]]
    IN  IF KeyFails(key, c0)
        THEN [st EXCEPT !.calls = c1,
                        !.err = Some(KeyError("key_tag", c0))]
        ELSE IF KeyFails(key, c1)
        THEN [st EXCEPT !.calls = c2,
                        !.err = Some(KeyError("algorithm", c1))]
        ELSE IF KeyFails(key, c2)
        THEN [st EXCEPT !.calls = c3,
                        !.err = Some(KeyError("sign", c2))]
        ELSE [st EXCEPT !.calls = c3, !.res = Append(st.res, rrsig)]

\* the body of the rrset loop after the eligibility test: key.algorithm()?,
\* key.key_tag()?, the buffer, key.sign(&buf)?, res.push(rrsig). st is the
\* state of the run: res, the log of capability calls, the error returned.
SignRrset(name, rrset, apex, window, key, st) ==
    LET c0 == st.calls
        c1 == Append(c0, [method |-> "algorithm", buf |-> None])
        c2 == Append(c1, [method |-> "key_tag", buf |-> None])
        alg == KeyAnswer(key, c0)
        tag == KeyAnswer(key, c1)
        data == Rrsig(RrsetRtype(rrset), alg, RrsigLabelCount(name.owner),
                      RrsetTtl(rrset), window.expiration, window.inception,
                      tag,
                      apex.owner, None)
        buf == [rdata |-> data, records |-> ComposeAll(rrset)]
        c3 == Append(c2, [method |-> "sign", buf |-> Some(buf)])
        sig == [buf |-> buf, answer |-> KeyAnswer(key, c2)]
        rrsig == [owner |-> name.owner, class |-> name.class,
                  ttl |-> RrsetTtl(rrset),
                  data |-> [data EXCEPT !.signature = Some(sig)]]
    IN  IF KeyFails(key, c0)
        THEN [st EXCEPT !.calls = c1,
                        !.err = Some(KeyError("algorithm", c0))]
        ELSE IF KeyFails(key, c1)
        THEN [st EXCEPT !.calls = c2,
                        !.err = Some(KeyError("key_tag", c1))]
        ELSE IF KeyFails(key, c2)
        THEN [st EXCEPT !.calls = c3,
                        !.err = Some(KeyError("sign", c2))]
        ELSE [st EXCEPT !.calls = c3, !.res = Append(st.res, rrsig)]

\* an eligibility test that ignores the zone cut
EligibleIgnoreCut(cut, rtype) == rtype # RtypeRrsig

\* whether the rrset loop of sign signs an rrset of this type
Eligible(cut, rtype) ==
    IF cut # None
    THEN rtype = RtypeDs \/ rtype = RtypeNsec
    ELSE rtype # RtypeRrsig

\* a below-cut test that lets a delegation below the cut through
SignBelowCutUnlessNs(family, cut) ==
    /\ cut # None
    /\ EndsWith(Owner(family), cut[1].owner)
    /\ \A i \in 1..Len(family) : family[i].rtype # RtypeNs

\* a below-cut test of sign by name equality in the place of ends_with
SignBelowCutSameName(family, cut) ==
    cut # None /\ NameEq(Owner(family), cut[1].owner)

\* the test of sign for a family below the active zone cut
SignBelowCut(family, cut) ==
    cut # None /\ EndsWith(Owner(family), cut[1].owner)

\* `for rrset in family.rrsets()` of sign; slice is what the FamilyIter
\* still holds
RECURSIVE SignRrsets(_, _, _, _, _, _, _)
SignRrsets(slice, cut, name, apex, window, key, st) ==
    IF st.err # None \/ slice = <<>> THEN st
    ELSE LET nx == FamilyIterNext(slice)
         IN  IF ~Eligible(cut, RrsetRtype(nx.res))
             THEN SignRrsets(nx.slice, cut, name, apex, window, key, st)
             ELSE SignRrsets(nx.slice, cut, name, apex, window, key,
                      SignRrset(name, nx.res, apex, window, key, st))

\* `for family in families` of sign; slice is what the RecordsIter still
\* holds. st.trace logs what the loop did with each family it took.
RECURSIVE SignFamilies(_, _, _, _, _, _)
SignFamilies(slice, cut, apex, window, key, st) ==
    IF st.err # None \/ slice = <<>> THEN st
    ELSE LET nx == RecordsIterNext(slice)
             family == nx.res
             name == FamilyNameOf(family)
             newCut == IF IsZoneCut(family, apex) THEN Some(name) ELSE None
             ev(kind, c) == [kind |-> kind, family |-> family, cut |-> c,
                             rest |-> nx.slice]
         IN  IF ~IsInZone(family, apex)
             THEN [st EXCEPT !.trace = Append(@, ev("break", cut))]
             ELSE IF SignBelowCut(family, cut)
             THEN SignFamilies(nx.slice, cut, apex, window, key,
                      [st EXCEPT !.trace = Append(@, ev("skip", cut))])
             ELSE SignFamilies(nx.slice, newCut, apex, window, key,
                      SignRrsets(family, newCut, name, apex, window, key,
                          [st EXCEPT !.trace = Append(@, ev("yield", newCut))]))

\* a sign that hands back what it has signed so far when the key fails
SignPartial(s, apex, window, key) ==
    LET st == SignFamilies(SkipBefore(s, apex), None, apex, window, key,
                  [res |-> <<>>, calls |-> <<>>, err |-> None,
                   trace |-> <<>>])
    IN  [out |-> [tag |-> "Ok", err |-> None, res |-> st.res],
         calls |-> st.calls, trace |-> st.trace]

\* SortedRecords::sign: the Result returned, with the log of the capability
\* calls and of the traversal
Sign(s, apex, window, key) ==
    LET st == SignFamilies(SkipBefore(s, apex), None, apex, window, key,
                  [res |-> <<>>, calls |-> <<>>, err |-> None,
                   trace |-> <<>>])
    IN  [out |-> IF st.err # None
                 THEN [tag |-> "Err", err |-> st.err, res |-> <<>>]
                 ELSE [tag |-> "Ok", err |-> None, res |-> st.res],
         calls |-> st.calls, trace |-> st.trace]

----------------------------------------------------------------------------
(* SortedRecords::nsecs *)

\* the NSEC ttls nsecs is tried with
NsecTtls == {5}

\* a bitmap that takes the type of the first rrset only
BitmapFirstOnly(slice, bitmap) ==
    IF slice = <<>> THEN bitmap ELSE bitmap \cup {RrsetRtype(slice)}

\* RtypeBitmap::builder, add, finalize: the set of types of the bitmap
RECURSIVE Bitmap(_, _)
Bitmap(slice, bitmap) ==
    IF slice = <<>> THEN bitmap
    ELSE LET nx == FamilyIterNext(slice)
         IN  Bitmap(nx.slice, bitmap \cup {RrsetRtype(nx.res)})

\* FamilyName::into_record(ttl, Nsec::new(next_name, bitmap))
NsecRecord(name, ttl, nextName, bitmap) ==
    [owner |-> name.owner, class |-> name.class, ttl |-> ttl,
     data |-> [next_name |-> nextName, types |-> bitmap]]

\* prev.take() / prev with set_next_name(next) and res.push(nsec)
PushPrev(st, next) ==
    IF st.prev = None THEN st.res
    ELSE Append(st.res, [st.prev[1] EXCEPT !.data.next_name = next])

\* a below-cut test by name equality in the place of ends_with
NsecsBelowCutSameName(family, cut) ==
    cut # None /\ NameEq(Owner(family), cut[1].owner)

\* the test of nsecs for a family below the active zone cut
NsecsBelowCut(family, cut) ==
    cut # None /\ EndsWith(Owner(family), cut[1].owner)

\* `for family in families` of nsecs
RECURSIVE NsecsFamilies(_, _, _, _, _)
NsecsFamilies(slice, cut, apex, ttl, st) ==
    IF slice = <<>> THEN st
    ELSE LET nx == RecordsIterNext(slice)
             family == nx.res
             name == FamilyNameOf(family)
             newCut == IF IsZoneCut(family, apex) THEN Some(name) ELSE None
             ev(kind, c) == [kind |-> kind, family |-> family, cut |-> c,
                             rest |-> nx.slice]
         IN  IF ~IsInZone(family, apex)
             THEN [st EXCEPT !.trace = Append(@, ev("break", cut))]
             ELSE IF NsecsBelowCut(family, cut)
             THEN NsecsFamilies(nx.slice, cut, apex, ttl,
                      [st EXCEPT !.trace = Append(@, ev("skip", cut))])
             ELSE NsecsFamilies(nx.slice, newCut, apex, ttl,
                      [res |-> PushPrev(st, name.owner),
                       prev |-> Some(NsecRecord(name, ttl, Nm(<<>>, 0),
                                    Bitmap(family, {RtypeRrsig}))),
                       trace |-> Append(st.trace, ev("yield", newCut))])

\* an nsecs that leaves the last record with the next name it was made with
NsecsNoWrap(s, apex, ttl) ==
    LET st == NsecsFamilies(SkipBefore(s, apex), None, apex, ttl,
                  [res |-> <<>>, prev |-> None, trace |-> <<>>])
    IN  [out |-> PushPrev(st, Nm(<<>>, 0)), trace |-> st.trace]

\* SortedRecords::nsecs: the records returned, with the log of the traversal
Nsecs(s, apex, ttl) ==
    LET st == NsecsFamilies(SkipBefore(s, apex), None, apex, ttl,
                  [res |-> <<>>, prev |-> None, trace |-> <<>>])
    IN  [out |-> PushPrev(st, apex.owner), trace |-> st.trace]

----------------------------------------------------------------------------
(* Actions *)

NoRet == [op |-> "new"]

\* The store is populated first and read-only afterwards: a sign or nsecs
\* pass or a view borrows the store (&self) and leaves it as it was, so a
\* behaviour is a population of the store followed by one pass over it.
Populating == ret.op \in {"new", "insert", "extend", "from_iter", "from_vec"}

\* no search_host is under way
NoTask == [pc |-> "idle", iter |-> <<>>, name |-> None, a |-> None,
           aaaa |-> None, result |-> None]

Init ==
    /\ records = <<>>
    /\ ret = NoRet
    /\ resolver = [search |-> <<>>]
    /\ task = NoTask
    /\ wire = <<>>

Insert ==
    \E r \in Pool :
        /\ Populating
        /\ Len(records) < MaxRecords
        /\ LET res == InsertRecord(records, r)
           IN  /\ records' = res.records
               /\ ret' = [op |-> "insert", before |-> records,
                          arg |-> r, out |-> res.out]
        /\ UNCHANGED hostVars

\* the items extend and from_iter are tried with
IterPool ==
    { Rec(N1, ClassIn, RtypeA, 1, 1), Rec(N1u, ClassIn, RtypeA, 2, 1),
      Rec(N1, ClassIn, RtypeA, 2, 2), Rec(Root, ClassIn, RtypeSoa, 1, 1),
      Rec(N11, ClassIn, RtypeNs, 1, 1) }

ExtendAct ==
    \E iter \in SeqsUpTo(IterPool, MaxIter) :
        /\ Populating
        /\ Len(records) + Len(iter) <= MaxRecords
        /\ records' = InsertAll(records, iter)
        /\ ret' = [op |-> "extend", before |-> records, arg |-> iter]
        /\ UNCHANGED hostVars

FromIterAct ==
    \E iter \in SeqsUpTo(IterPool, MaxIter) :
        /\ ret.op = "new"
        /\ records' = FromIter(iter)
        /\ ret' = [op |-> "from_iter", arg |-> iter]
        /\ UNCHANGED hostVars

FromVecAct ==
    \E src \in SeqsUpTo(IterPool, MaxVec) :
        /\ ret.op = "new"
        /\ records' = FromVec(src)
        /\ ret' = [op |-> "from_vec", arg |-> src]
        /\ UNCHANGED hostVars

FamiliesAct ==
    /\ Populating
    /\ ret' = [op |-> "families", out |-> Families(records)]
    /\ UNCHANGED <<records, hostVars>>

SignAct ==
    \E apex \in Apexes, window \in Windows, key \in Keys :
        /\ Populating
        /\ ret' = [op |-> "sign", apex |-> apex, window |-> window,
                   key |-> key] @@ Sign(records, apex, window, key)
        /\ UNCHANGED <<records, hostVars>>

NsecsAct ==
    \E apex \in Apexes, ttl \in NsecTtls :
        /\ Populating
        /\ ret' = [op |-> "nsecs", apex |-> apex, ttl |-> ttl]
                      @@ Nsecs(records, apex, ttl)
        /\ UNCHANGED <<records, hostVars>>

\* rrsets(), and rrsets() of each family of families() in turn
RECURSIVE RrsetsOfFamilies(_)
RrsetsOfFamilies(fs) ==
    IF fs = <<>> THEN <<>>
    ELSE CollectFamilyRrsets(Head(fs)) \o RrsetsOfFamilies(Tail(fs))

RrsetsAct ==
    /\ Populating
    /\ ret' = [op |-> "rrsets", out |-> Rrsets(records),
               local |-> RrsetsOfFamilies(Families(records))]
    /\ UNCHANGED <<records, hostVars>>

FindSoaAct ==
    /\ Populating
    /\ ret' = [op |-> "find_soa", out |-> FindSoa(records)]
    /\ UNCHANGED <<records, hostVars>>

\* families() followed by skip_before(apex): what the iterator still holds
SkipBeforeAct ==
    \E apex \in Apexes :
        /\ Populating
        /\ ret' = [op |-> "skip_before", apex |-> apex,
                   out |-> SkipBefore(records, apex)]
        /\ UNCHANGED <<records, hostVars>>

Next ==
    \/ Insert
    \/ ExtendAct
    \/ FromIterAct
    \/ FamiliesAct
    \/ RrsetsAct
    \/ FindSoaAct
    \/ SkipBeforeAct
    \/ SignAct
    \/ NsecsAct

\* the same program with the From<Vec<Record>> conversion in use as well
NextBulk ==
    \/ Insert
    \/ FromVecAct
    \/ FamiliesAct

SpecBulk == Init /\ [][NextBulk]_vars

Spec == Init /\ [][Next]_vars

\* a store filled by insert, extend and from_iter, then read through one of
\* its views
NextViews ==
    \/ Insert
    \/ ExtendAct
    \/ FromIterAct
    \/ FamiliesAct
    \/ RrsetsAct
    \/ FindSoaAct
    \/ SkipBeforeAct

SpecViews == Init /\ [][NextViews]_vars

\* a store filled record by record, then signed or given its NSEC chain
NextZone ==
    \/ Insert
    \/ SignAct
    \/ NsecsAct

SpecZone == Init /\ [][NextZone]_vars

\* a store built from, or extended by, one iterator of records
NextOrder ==
    \/ FromIterAct
    \/ ExtendAct

SpecOrder == Init /\ [][NextOrder]_vars

----------------------------------------------------------------------------
(* Host lookup: lookup_host, search_host, FoundHosts *)

\* the suffixes a search list is made of: the root, a suffix the name can
\* be chained to, and one that makes the chained name too long
SearchPool ==
    { [id |-> 0, fits |-> TRUE], [id |-> 1, fits |-> TRUE],
      [id |-> 2, fits |-> FALSE] }

\* the relative name search_host is asked for
QName == [host |-> 1]

\* ToRelativeDname::chain: the absolute name, or an error if it is too long
Chain(qname, suffix) ==
    IF suffix.fits THEN Some([host |-> qname.host, suffix |-> suffix.id])
    ELSE None

\* ToRelativeDname::chain_root
ChainRoot(qname) == [host |-> qname.host, suffix |-> 0]

\* what Resolver::query can come back with: an error, or an answer with or
\* without records in its answer section
QueryResults(name, rtype) ==
    { [tag |-> "Err", name |-> name, rtype |-> rtype, ancount |-> 0] }
        \cup { [tag |-> "Ok", name |-> name, rtype |-> rtype, ancount |-> n] :
                   n \in 0..1 }

\* FoundHosts::new with the error of the A query
FoundHostsNewErrA(aaaa, a) ==
    IF aaaa.tag = "Err" /\ a.tag = "Err"
    THEN [tag |-> "Err", err |-> a]
    ELSE [tag |-> "Ok", hosts |-> [aaaa |-> aaaa, a |-> a]]

\* FoundHosts::new
FoundHostsNew(aaaa, a) ==
    IF aaaa.tag = "Err" /\ a.tag = "Err"
    THEN [tag |-> "Err", err |-> aaaa]
    ELSE [tag |-> "Ok", hosts |-> [aaaa |-> aaaa, a |-> a]]

\* FoundHosts::is_empty
IsEmpty(hosts) ==
    /\ ~(hosts.aaaa.tag = "Ok" /\ hosts.aaaa.ancount > 0)
    /\ ~(hosts.a.tag = "Ok" /\ hosts.a.ancount > 0)

\* a call of search_host on a resolver with some search list
InitHost ==
    /\ records = <<>>
    /\ ret = NoRet
    /\ \E search \in SeqsUpTo(SearchPool, MaxSearch) :
           /\ resolver = [search |-> search]
           /\ task = [NoTask EXCEPT !.pc = "next", !.iter = search]
    /\ wire = <<>>

\* lookup_host up to its join: both queries are made, then awaited
LookupHostCall(pc, iter, name) ==
    /\ task' = [pc |-> pc, iter |-> iter, name |-> Some(name), a |-> None,
                aaaa |-> None, result |-> None]
    /\ wire' = wire \o << [kind |-> "query", name |-> name, rtype |-> RtypeA],
                          [kind |-> "query", name |-> name,
                           rtype |-> RtypeAaaa] >>

\* search_host: the next suffix of the search list
SearchNextAct ==
    /\ task.pc = "next"
    /\ task.iter # <<>>
    /\ LET name == Chain(QName, Head(task.iter))
       IN  IF name = None
           THEN /\ task' = [task EXCEPT !.iter = Tail(task.iter)]
                /\ UNCHANGED wire
           ELSE LookupHostCall("await", Tail(task.iter), name[1])
    /\ UNCHANGED <<records, ret, resolver>>

\* search_host: the search list is used up, the name is looked up as it is
SearchRootAct ==
    /\ task.pc = "next"
    /\ task.iter = <<>>
    /\ LookupHostCall("await_root", <<>>, ChainRoot(QName))
    /\ UNCHANGED <<records, ret, resolver>>

\* the resolver completes one of the two queries of the join
QueryAct ==
    /\ task.pc \in {"await", "await_root"}
    /\ \E rtype \in {RtypeA, RtypeAaaa} :
           \E res \in QueryResults(task.name[1], rtype) :
               /\ IF rtype = RtypeA
                  THEN task.a = None /\ task' = [task EXCEPT !.a = Some(res)]
                  ELSE task.aaaa = None
                           /\ task' = [task EXCEPT !.aaaa = Some(res)]
    /\ UNCHANGED <<records, ret, resolver, wire>>

\* tokio::join! of lookup_host returns the two results
Joined == [kind |-> "join", a |-> task.a[1], aaaa |-> task.aaaa[1]]

\* both queries of a suffix lookup are complete
LookupDoneAct ==
    /\ task.pc = "await"
    /\ task.a # None
    /\ task.aaaa # None
    /\ LET answer == FoundHostsNew(task.aaaa[1], task.a[1])
       IN  IF answer.tag = "Ok" /\ ~IsEmpty(answer.hosts)
           THEN task' = [task EXCEPT !.pc = "done", !.result = Some(answer)]
           ELSE task' = [task EXCEPT !.pc = "next"]
    /\ wire' = Append(wire, Joined)
    /\ UNCHANGED <<records, ret, resolver>>

\* both queries of the lookup of the name chained to the root are complete
RootDoneAct ==
    /\ task.pc = "await_root"
    /\ task.a # None
    /\ task.aaaa # None
    /\ task' = [task EXCEPT !.pc = "done",
                   !.result = Some(FoundHostsNew(task.aaaa[1], task.a[1]))]
    /\ wire' = Append(wire, Joined)
    /\ UNCHANGED <<records, ret, resolver>>

NextHost ==
    \/ SearchNextAct
    \/ SearchRootAct
    \/ QueryAct
    \/ LookupDoneAct
    \/ RootDoneAct

SpecHost == InitHost /\ [][NextHost]_vars

----------------------------------------------------------------------------
(* Notions the properties are stated with *)

\* s is strictly ascending in canonical order
StrictlyAscending(s) ==
    \A i, j \in 1..Len(s) : i < j => CanonicalCmp(s[i], s[j]) = -1

\* s without its k-th element
RemoveAt(s, k) == SubSeq(s, 1, k - 1) \o SubSeq(s, k + 1, Len(s))

\* the concatenation of a sequence of sequences
RECURSIVE Concat(_)
Concat(ss) == IF ss = <<>> THEN <<>> ELSE Head(ss) \o Concat(Tail(ss))

\* record r belongs to the family named (owner, class)
InFamily(r, owner, class) == r.owner.labels = owner.labels /\ r.class = class

\* the canonical order of family names: class, then owner name
FamilyNameBefore(a, b) ==
    \/ a.class < b.class
    \/ a.class = b.class /\ NameCmp(a.owner, b.owner) = -1

\* labels a are an initial part of labels b: the name of b is the name of a
\* or lies below it
IsPrefix(a, b) == Len(a) <= Len(b) /\ \A i \in 1..Len(a) : a[i] = b[i]

\* record r is in the zone of apex: same class, owner at or below the apex
InZone(r, apex) ==
    r.class = apex.class /\ IsPrefix(apex.owner.labels, r.owner.labels)

\* the store holds a record of the apex family
ApexPresent(s, apex) ==
    \E k \in 1..Len(s) : InFamily(s[k], apex.owner, apex.class)

\* the delegation points of the zone: the in-zone owners other than the
\* apex that carry an NS record
Delegations(s, apex) ==
    { s[k].owner.labels : k \in { n \in 1..Len(s) :
          /\ s[n].rtype = RtypeNs
          /\ InZone(s[n], apex)
          /\ s[n].owner.labels # apex.owner.labels } }

\* the name with these labels lies strictly below a delegation point
BelowDelegation(labels, s, apex) ==
    \E d \in Delegations(s, apex) : IsPrefix(d, labels) /\ d # labels

\* the record types present in a slice
TypesOf(slice) == { slice[k].rtype : k \in 1..Len(slice) }

\* the events of a traversal log of the given kind
Events(trace, kind) == { i \in 1..Len(trace) : trace[i].kind = kind }

----------------------------------------------------------------------------
(* Properties of the record store *)

\* C1: insert(r) on a store holding a record canonically equal to r returns
\* an error carrying r itself and leaves the record sequence as it was;
\* otherwise it returns success and the store holds its old records plus r.
C1_InsertContract ==
    ret.op = "insert" =>
        LET S == ret.before
            r == ret.arg
        IN  IF \E i \in 1..Len(S) : CanonicalCmp(S[i], r) = 0
            THEN /\ ret.out.tag = "Err"
                 /\ ret.out.record = r
                 /\ records = S
            ELSE /\ ret.out.tag = "Ok"
                 /\ \E k \in 1..Len(records) :
                        records[k] = r /\ RemoveAt(records, k) = S

\* a rejected insert of a record that differs (in TTL or spelling) from
\* the stored record it is canonically equal to
C1_Witness ==
    /\ ret.op = "insert"
    /\ ret.out.tag = "Err"
    /\ Len(ret.before) >= 2
    /\ \E i \in 1..Len(ret.before) :
           CanonicalCmp(ret.before[i], ret.arg) = 0 /\ ret.before[i] # ret.arg

\* C2: after any sequence of insert, extend and from_iter from the empty
\* store, the record sequence is strictly ascending in canonical order.
C2_StrictlyAscending == StrictlyAscending(records)

\* an extend that added a record to a store and had another one rejected
C2_Witness ==
    /\ ret.op = "extend"
    /\ Len(ret.before) >= 1
    /\ Len(ret.arg) = 2
    /\ Len(records) = Len(ret.before) + 1

\* C3: From<Vec<Record>> yields a store that is sorted and holds no two
\* canonically equal records, whatever the vector.
C3_FromVecNoDuplicates ==
    ret.op = "from_vec" => StrictlyAscending(records)

\* C4: families() yields family names in strictly ascending canonical
\* order, every (owner, class) pair of the store as exactly one family with
\* all records of the pair, each family ascending, and the families
\* concatenated are the store's record sequence.
C4_Families ==
    ret.op = "families" =>
        LET fs == ret.out
        IN  /\ \A i \in 1..Len(fs) : fs[i] # <<>>
            /\ \A i, j \in 1..Len(fs) :
                   i < j => FamilyNameBefore(FamilyName(fs[i][1].owner,
                                                        fs[i][1].class),
                                             FamilyName(fs[j][1].owner,
                                                        fs[j][1].class))
            /\ \A k \in 1..Len(records) :
                   \E i \in 1..Len(fs) :
                       /\ fs[i] = SelectSeq(records,
                              LAMBDA r : InFamily(r, records[k].owner,
                                                  records[k].class))
                       /\ \A j \in 1..Len(fs) :
                              InFamily(fs[j][1], records[k].owner,
                                       records[k].class) => j = i
            /\ \A i \in 1..Len(fs) : StrictlyAscending(fs[i])
            /\ Concat(fs) = records

\* families() over a store with one owner in two classes and a family of
\* several records
C4_Witness ==
    /\ ret.op = "families"
    /\ Len(ret.out) >= 2
    /\ \E i \in 1..Len(ret.out) : Len(ret.out[i]) >= 2
    /\ \E i, j \in 1..Len(ret.out) :
           /\ ret.out[i][1].owner.labels = ret.out[j][1].owner.labels
           /\ ret.out[i][1].class # ret.out[j][1].class

----------------------------------------------------------------------------
(* Properties of sign *)

\* C5: sign emits no RRSIG whose owner lies strictly below a delegation
\* point, and at a delegation point only RRSIGs covering DS or NSEC.
C5_ZoneCutExclusion ==
    ret.op = "sign" =>
        \A i \in 1..Len(ret.out.res) :
            LET g == ret.out.res[i]
            IN  /\ ~BelowDelegation(g.owner.labels, records, ret.apex)
                /\ g.owner.labels \in Delegations(records, ret.apex) =>
                       g.data.type_covered \in {RtypeDs, RtypeNsec}

\* a run that signed a DS rrset at a delegation point carrying NS, over a
\* store that also holds a record below that delegation point
C5_Witness ==
    /\ ret.op = "sign"
    /\ \E i \in 1..Len(ret.out.res) :
           /\ ret.out.res[i].owner.labels \in Delegations(records, ret.apex)
           /\ ret.out.res[i].data.type_covered = RtypeDs
           /\ \E k \in 1..Len(records) :
                  /\ InZone(records[k], ret.apex)
                  /\ IsPrefix(ret.out.res[i].owner.labels,
                              records[k].owner.labels)
                  /\ records[k].owner.labels # ret.out.res[i].owner.labels

\* C6: for every yielded family that is not a zone cut, the apex included,
\* a successful run emits exactly one RRSIG per rrset whose type is not
\* RRSIG and none covering RRSIG; the RRSIGs come in family order and,
\* within a family, in rrset order.
C6_SignsEveryRrset ==
    (ret.op = "sign" /\ ret.out.tag = "Ok") =>
        LET res == ret.out.res
            covering(f, t) ==
                { i \in 1..Len(res) :
                      /\ res[i].owner = f[1].owner
                      /\ res[i].class = f[1].class
                      /\ res[i].data.type_covered = t }
        IN  /\ \A e \in Events(ret.trace, "yield") :
                   LET f == ret.trace[e].family
                   IN  f[1].owner.labels \notin Delegations(records, ret.apex)
                       => /\ \A t \in TypesOf(f) \ {RtypeRrsig} :
                                 Cardinality(covering(f, t)) = 1
                          /\ \A t \in {RtypeRrsig, RtypeA, RtypeNs, RtypeSoa,
                                       RtypeAaaa, RtypeDs, RtypeNsec}
                                          \ (TypesOf(f) \ {RtypeRrsig}) :
                                 covering(f, t) = {}
            /\ \A i, j \in 1..Len(res) :
                   i < j =>
                       \/ FamilyNameBefore(res[i], res[j])
                       \/ /\ res[i].owner = res[j].owner
                          /\ res[i].class = res[j].class
                          /\ res[i].data.type_covered
                                 < res[j].data.type_covered

\* a successful run over an apex carrying NS, an RRSIG rrset and a further
\* rrset, with a second family signed after it
C6_Witness ==
    /\ ret.op = "sign"
    /\ ret.out.tag = "Ok"
    /\ \E k \in 1..Len(records) :
           InFamily(records[k], ret.apex.owner, ret.apex.class)
               /\ records[k].rtype = RtypeNs
    /\ \E k \in 1..Len(records) :
           InFamily(records[k], ret.apex.owner, ret.apex.class)
               /\ records[k].rtype = RtypeRrsig
    /\ \E i, j \in 1..Len(ret.out.res) :
           /\ ret.out.res[i].data.type_covered = RtypeNs
           /\ ret.out.res[i].owner.labels = ret.apex.owner.labels
           /\ ret.out.res[j].owner.labels # ret.apex.owner.labels

\* C7: when sign or nsecs breaks out of the loop, no family later in the
\* store is in-zone; so with the apex in the store every in-zone family
\* that is not below a delegation is yielded.
C7_BreakLosesNothing ==
    ret.op \in {"sign", "nsecs"} =>
        /\ \A e \in Events(ret.trace, "break") :
               \A k \in 1..Len(ret.trace[e].rest) :
                   ~InZone(ret.trace[e].rest[k], ret.apex)
        /\ (ApexPresent(records, ret.apex)
                /\ (ret.op = "sign" => ret.out.tag = "Ok")) =>
               \A k \in 1..Len(records) :
                   (/\ InZone(records[k], ret.apex)
                    /\ ~BelowDelegation(records[k].owner.labels, records,
                                        ret.apex))
                   => \E e \in Events(ret.trace, "yield") :
                          \E n \in 1..Len(ret.trace[e].family) :
                              ret.trace[e].family[n] = records[k]

\* a traversal that yielded two families, then broke off at a family out of
\* the zone with records of the store still to come
C7_Witness ==
    /\ ret.op \in {"sign", "nsecs"}
    /\ Cardinality(Events(ret.trace, "yield")) >= 2
    /\ \E e \in Events(ret.trace, "break") : ret.trace[e].rest # <<>>

\* C8: if a call of algorithm(), key_tag() or sign() fails, sign returns
\* that error and no RRSIG at all, and the failing call is the last call
\* made to the capability.
C8_FailFast ==
    ret.op = "sign" =>
        LET f == ret.key.failAt
        IN  /\ (f > 0 /\ Len(ret.calls) >= f) =>
                   /\ ret.out.tag = "Err"
                   /\ ret.out.res = <<>>
                   /\ Len(ret.calls) = f
                   /\ ret.out.err
                          = <<[method |-> ret.calls[f].method, call |-> f]>>
            /\ ret.out.tag = "Err" => (f > 0 /\ Len(ret.calls) = f)
            /\ ret.out.tag = "Ok" => ret.out.err = <<>>

\* a run that failed after an earlier rrset had been signed
C8_Witness ==
    /\ ret.op = "sign"
    /\ ret.out.tag = "Err"
    /\ Len(ret.calls) >= 5
    /\ ret.calls[3].method = "sign"

----------------------------------------------------------------------------
(* Properties of nsecs *)

\* C9: for a store that holds the apex, the records r_0..r_(n-1) of nsecs
\* form a ring: r_0 is owned by the apex, the next name of r_i is the owner
\* of r_(i+1), the next name of the last record is the apex owner; a zone
\* holding only the apex gives one record pointing at the apex itself.
C9_NsecRing ==
    (ret.op = "nsecs" /\ ApexPresent(records, ret.apex)) =>
        LET o == ret.out
            n == Len(ret.out)
        IN  /\ n >= 1
            /\ o[1].owner.labels = ret.apex.owner.labels
            /\ \A i \in 1..(n - 1) : o[i].data.next_name = o[i + 1].owner
            /\ o[n].data.next_name = ret.apex.owner
            /\ (\A k \in 1..Len(records) :
                    InZone(records[k], ret.apex) =>
                        records[k].owner.labels = ret.apex.owner.labels)
               => n = 1

\* a ring of three records whose apex is spelled differently in the store
C9_Witness ==
    /\ ret.op = "nsecs"
    /\ ApexPresent(records, ret.apex)
    /\ Len(ret.out) >= 3
    /\ ret.out[1].owner # ret.apex.owner

\* C10: nsecs emits exactly one NSEC record per in-zone family that is not
\* below a delegation point and none for any other owner; a delegation
\* point itself gets one; no name below a delegation point is used as a
\* next name; the owners are strictly ascending in canonical order.
C10_OneNsecPerFamily ==
    ret.op = "nsecs" =>
        LET o == ret.out
            eligible ==
                IF ApexPresent(records, ret.apex)
                THEN { records[k].owner.labels : k \in { n \in 1..Len(records) :
                           /\ InZone(records[n], ret.apex)
                           /\ ~BelowDelegation(records[n].owner.labels,
                                               records, ret.apex) } }
                ELSE {}
        IN  /\ { o[i].owner.labels : i \in 1..Len(o) } = eligible
            /\ \A i \in 1..Len(o) : o[i].class = ret.apex.class
            /\ \A i, j \in 1..Len(o) :
                   i < j => NameCmp(o[i].owner, o[j].owner) = -1
            /\ \A i \in 1..Len(o) : o[i].data.next_name.labels \in eligible

\* a chain with a record for a delegation point over a store that holds a
\* family below that delegation point
C10_Witness ==
    /\ ret.op = "nsecs"
    /\ Len(ret.out) >= 2
    /\ \E i \in 1..Len(ret.out) :
           /\ ret.out[i].owner.labels \in Delegations(records, ret.apex)
           /\ \E k \in 1..Len(records) :
                  /\ InZone(records[k], ret.apex)
                  /\ IsPrefix(ret.out[i].owner.labels,
                              records[k].owner.labels)
                  /\ records[k].owner.labels # ret.out[i].owner.labels

\* C11: the bitmap of every NSEC record of nsecs holds exactly the record
\* types present in the store at the record's owner and class, and RRSIG.
C11_BitmapExact ==
    ret.op = "nsecs" =>
        \A i \in 1..Len(ret.out) :
            ret.out[i].data.types
                = { records[k].rtype : k \in { n \in 1..Len(records) :
                        InFamily(records[n], ret.out[i].owner,
                                 ret.out[i].class) } }
                  \cup {RtypeRrsig}

\* an NSEC record for a family carrying A and AAAA only
C11_Witness ==
    /\ ret.op = "nsecs"
    /\ \E i \in 1..Len(ret.out) :
           ret.out[i].data.types = {RtypeA, RtypeAaaa, RtypeRrsig}

----------------------------------------------------------------------------
(* Properties of the views *)

\* C12: skip_before(apex) removes a leading part of the sequence and no
\* record of the apex family: what is left is empty or starts with the
\* whole apex family, and is the whole sequence if the apex family was
\* first already.
C12_SkipBefore ==
    ret.op = "skip_before" =>
        LET out == ret.out
            cutoff == Len(records) - Len(out)
            isApex(r) == InFamily(r, ret.apex.owner, ret.apex.class)
        IN  /\ cutoff >= 0
            /\ out = SubSeq(records, cutoff + 1, Len(records))
            /\ \A k \in 1..cutoff : ~isApex(records[k])
            /\ out # <<>> => isApex(out[1])
            /\ (records # <<>> /\ isApex(records[1])) => out = records
            /\ out # <<>> =>
                   Families(out)[1] = SelectSeq(records, isApex)

\* a skip_before that dropped records and stopped at an apex family of
\* two records with another family behind it
C12_Witness ==
    /\ ret.op = "skip_before"
    /\ Len(ret.out) >= 3
    /\ Len(ret.out) < Len(records)
    /\ InFamily(ret.out[2], ret.apex.owner, ret.apex.class)
    /\ ~InFamily(ret.out[3], ret.apex.owner, ret.apex.class)

----------------------------------------------------------------------------
(* Properties of the RRSIG records and of the use of the key *)

\* the canonical form of a record, as the signed buffer holds it
CanonicalForm(r) ==
    [owner |-> r.owner.labels, class |-> r.class, rtype |-> r.rtype,
     ttl |-> r.ttl, data |-> r.data]

\* the rrset the RRSIG record g covers: the records of the store of the
\* owner and class of g and of the type covered, in store order
CoveredRrset(g) ==
    SelectSeq(records, LAMBDA r : InFamily(r, g.owner, g.class)
                                  /\ r.rtype = g.data.type_covered)

\* C14: every RRSIG of sign has the owner and class of the family of the
\* rrset it covers, the type of the rrset as type covered, the apex owner
\* as signer, the TTL of the first member of the rrset as TTL and original
\* TTL, and the signature the key returned for the buffer of that rrset.
C14_RrsigFields ==
    ret.op = "sign" =>
        LET signCalls == SelectSeq(ret.calls, LAMBDA c : c.method = "sign")
        IN  \A i \in 1..Len(ret.out.res) :
                LET g == ret.out.res[i]
                    fam == SelectSeq(records,
                               LAMBDA r : InFamily(r, g.owner, g.class))
                    rr == CoveredRrset(g)
                    buf == signCalls[i].buf[1]
                IN  /\ rr # <<>>
                    /\ g.owner = fam[1].owner
                    /\ g.class = fam[1].class
                    /\ g.ttl = rr[1].ttl
                    /\ g.data.original_ttl = rr[1].ttl
                    /\ g.data.signer_name = ret.apex.owner
                    /\ buf.records
                           = [k \in 1..Len(rr) |-> CanonicalForm(rr[k])]
                    /\ buf.rdata = [g.data EXCEPT !.signature = <<>>]
                    /\ g.data.signature
                           = <<[buf |-> buf,
                                answer |-> IF ret.key.vary THEN 3 * i
                                           ELSE 0]>>

\* an RRSIG over an rrset whose members carry different TTLs
C14_Witness ==
    /\ ret.op = "sign"
    /\ \E i \in 1..Len(ret.out.res) :
           LET rr == CoveredRrset(ret.out.res[i])
           IN  Len(rr) >= 2 /\ rr[1].ttl # rr[2].ttl

\* C15: a successful run calls algorithm(), key_tag() and sign() once each,
\* in that order, for every eligible rrset, one rrset after the other; as
\* many sign() calls as RRSIGs; each RRSIG carries the algorithm and key
\* tag answered for its own rrset, also when the answers differ.
C15_OnceEachPerRrset ==
    (ret.op = "sign" /\ ret.out.tag = "Ok") =>
        LET res == ret.out.res
            answer(n) == IF ret.key.vary THEN n ELSE 0
            cutAt(e) == ret.trace[e].family[1].owner.labels
                            \in Delegations(records, ret.apex)
            eligible ==
                UNION { { <<ret.trace[e].family[1].owner.labels, t>> :
                            t \in { x \in TypesOf(ret.trace[e].family) :
                                       IF cutAt(e)
                                       THEN x \in {RtypeDs, RtypeNsec}
                                       ELSE x # RtypeRrsig } } :
                        e \in Events(ret.trace, "yield") }
        IN  /\ Len(ret.calls) = 3 * Len(res)
            /\ { <<res[i].owner.labels, res[i].data.type_covered>> :
                      i \in 1..Len(res) } = eligible
            /\ \A i \in 1..Len(res) :
                   /\ ret.calls[3 * i - 2].method = "algorithm"
                   /\ ret.calls[3 * i - 1].method = "key_tag"
                   /\ ret.calls[3 * i].method = "sign"
                   /\ res[i].data.algorithm = answer(3 * i - 2)
                   /\ res[i].data.key_tag = answer(3 * i - 1)
                   /\ ret.calls[3 * i].buf[1].records
                          = [k \in 1..Len(CoveredRrset(res[i])) |->
                                 CanonicalForm(CoveredRrset(res[i])[k])]
            /\ \A i, j \in 1..Len(res) :
                   (res[i].owner = res[j].owner
                    /\ res[i].data.type_covered = res[j].data.type_covered)
                   => i = j

\* a successful run of two RRSIGs with a key whose answers vary
C15_Witness ==
    /\ ret.op = "sign"
    /\ ret.out.tag = "Ok"
    /\ ret.key.vary
    /\ Len(ret.out.res) >= 2
    /\ ret.out.res[1].data.algorithm # ret.out.res[2].data.algorithm

\* C16: find_soa returns none exactly when the store holds no SOA record;
\* otherwise the rrset with the first SOA record of the store, which holds
\* all SOA records of that owner and class.
C16_FindSoa ==
    ret.op = "find_soa" =>
        LET soas == { k \in 1..Len(records) : records[k].rtype = RtypeSoa }
        IN  IF soas = {} THEN ret.out = <<>>
            ELSE LET first == CHOOSE k \in soas : \A n \in soas : k <= n
                 IN  /\ Len(ret.out) = 1
                     /\ ret.out[1] # <<>>
                     /\ ret.out[1][1] = records[first]
                     /\ ret.out[1]
                            = SelectSeq(records,
                                  LAMBDA r : /\ r.rtype = RtypeSoa
                                             /\ InFamily(r,
                                                    records[first].owner,
                                                    records[first].class))

\* a find_soa that passed over another rrset and returned an SOA rrset of
\* two records
C16_Witness ==
    /\ ret.op = "find_soa"
    /\ Len(ret.out) = 1
    /\ Len(ret.out[1]) = 2
    /\ records[1].rtype # RtypeSoa

\* C17: the cut changes only when a family is yielded: after a yielded
\* family it is that family's name if the family is a zone cut and none
\* otherwise; a skip or the break leaves it as it was; a family at or below
\* the active cut is skipped, a delegation among them too, so the cut stays
\* and later descendants of it are skipped as well.
C17_CutState ==
    ret.op \in {"sign", "nsecs"} =>
        \A i \in 1..Len(ret.trace) :
            LET e == ret.trace[i]
                before == IF i = 1 THEN <<>> ELSE ret.trace[i - 1].cut
                f == e.family
                below == /\ before # <<>>
                         /\ IsPrefix(before[1].owner.labels,
                                     f[1].owner.labels)
                isCut == /\ ~InFamily(f[1], ret.apex.owner, ret.apex.class)
                         /\ RtypeNs \in TypesOf(f)
            IN  /\ e.kind \in {"yield", "skip", "break"}
                /\ e.kind = "yield" =>
                       /\ ~below
                       /\ e.cut = IF isCut
                                  THEN <<[owner |-> f[1].owner,
                                          class |-> f[1].class]>>
                                  ELSE <<>>
                /\ e.kind = "skip" => below /\ e.cut = before
                /\ e.kind = "break" => e.cut = before /\ i = Len(ret.trace)

\* a traversal that skipped a delegation below the active cut and then a
\* later descendant of that cut
C17_Witness ==
    /\ ret.op \in {"sign", "nsecs"}
    /\ \E i, j \in 1..Len(ret.trace) :
           /\ i < j
           /\ ret.trace[i].kind = "skip"
           /\ RtypeNs \in TypesOf(ret.trace[i].family)
           /\ ret.trace[j].kind = "skip"
           /\ ret.trace[j].cut = ret.trace[i].cut
           /\ ret.trace[j].family[1].owner.labels
                  # ret.trace[i].family[1].owner.labels

\* C18: the rrsets of rrsets() are the rrsets of the families of
\* families() taken in order: each a maximal run of one owner, class and
\* type, every record in exactly one of them, no (owner, class, type) in
\* two of them.
C18_RrsetsGlobalLocal ==
    ret.op = "rrsets" =>
        LET rs == ret.out
            same(a, b) == /\ a.owner.labels = b.owner.labels
                          /\ a.class = b.class
                          /\ a.rtype = b.rtype
        IN  /\ rs = ret.local
            /\ Concat(rs) = records
            /\ \A i \in 1..Len(rs) :
                   /\ rs[i] # <<>>
                   /\ \A k \in 1..Len(rs[i]) : same(rs[i][k], rs[i][1])
            /\ \A i, j \in 1..Len(rs) : same(rs[i][1], rs[j][1]) => i = j

\* rrsets() over a store with an rrset of two records, a family of two
\* rrsets and one owner and type in two classes
C18_Witness ==
    /\ ret.op = "rrsets"
    /\ \E i \in 1..Len(ret.out) : Len(ret.out[i]) >= 2
    /\ \E i, j \in 1..Len(ret.out) :
           /\ ret.out[i][1].owner.labels = ret.out[j][1].owner.labels
           /\ ret.out[i][1].class = ret.out[j][1].class
           /\ ret.out[i][1].rtype # ret.out[j][1].rtype
    /\ \E i, j \in 1..Len(ret.out) :
           /\ ret.out[i][1].owner.labels = ret.out[j][1].owner.labels
           /\ ret.out[i][1].rtype = ret.out[j][1].rtype
           /\ ret.out[i][1].class # ret.out[j][1].class

----------------------------------------------------------------------------
(* Properties of sign and nsecs together *)

\* the families a traversal yielded, in order
Yielded(trace) ==
    LET ys == SelectSeq(trace, LAMBDA e : e.kind = "yield")
    IN  [k \in 1..Len(ys) |-> ys[k].family]

\* C19: for one store and apex a successful sign and nsecs yield the same
\* sequence of families, and every owner of an RRSIG of sign is the owner
\* of exactly one NSEC record of nsecs.
C19_SameTraversal ==
    (ret.op = "sign" /\ ret.out.tag = "Ok") =>
        \A ttl \in NsecTtls :
            LET n == Nsecs(records, ret.apex, ttl)
            IN  /\ Yielded(ret.trace) = Yielded(n.trace)
                /\ \A i \in 1..Len(ret.out.res) :
                       Cardinality({ j \in 1..Len(n.out) :
                           /\ n.out[j].owner = ret.out.res[i].owner
                           /\ n.out[j].class = ret.out.res[i].class }) = 1

\* a successful sign of two families' rrsets that skipped a family below a
\* zone cut
C19_Witness ==
    /\ ret.op = "sign"
    /\ ret.out.tag = "Ok"
    /\ Len(Yielded(ret.trace)) >= 2
    /\ Events(ret.trace, "skip") # {}
    /\ \E i, j \in 1..Len(ret.out.res) :
           ret.out.res[i].owner # ret.out.res[j].owner

\* C20: over a store that holds no record of the owner and class of the
\* apex, sign returns success with no RRSIG and without a call to the key,
\* and nsecs returns no record, also when the store holds records below
\* the apex.
C20_NoApexNoOutput ==
    (ret.op \in {"sign", "nsecs"} /\ ~ApexPresent(records, ret.apex)) =>
        /\ ret.op = "sign" =>
               /\ ret.out.tag = "Ok"
               /\ ret.out.res = <<>>
               /\ ret.calls = <<>>
        /\ ret.op = "nsecs" => ret.out = <<>>

\* a sign with a key that fails at once, over a store with records below
\* an apex that it does not hold
C20_Witness ==
    /\ ret.op = "sign"
    /\ ret.key.failAt = 1
    /\ ~ApexPresent(records, ret.apex)
    /\ \E k \in 1..Len(records) :
           InZone(records[k], ret.apex) /\ records[k].rtype = RtypeA

----------------------------------------------------------------------------
(* Order of insertion *)

\* no two items of iter are canonically equal
PairwiseDistinct(iter) ==
    \A i, j \in 1..Len(iter) : i < j => CanonicalCmp(iter[i], iter[j]) # 0

\* every order the items of iter can be handed over in
Orders(iter) ==
    { [i \in 1..Len(iter) |-> iter[f[i]]] : f \in Permutations(1..Len(iter)) }

\* the items of iter that no earlier item of iter is canonically equal to
FirstOfTheirKind(iter) ==
    { i \in 1..Len(iter) :
        \A j \in 1..(i - 1) : CanonicalCmp(iter[j], iter[i]) # 0 }

\* C21: records inserted into an empty store end up in the same sequence
\* whatever the order they were inserted in, provided no two of them are
\* canonically equal; of canonically equal records the one inserted first
\* is kept, exactly as it was given, and the later ones are rejected.
C21_OrderIndependent ==
    (ret.op \in {"from_iter", "extend"}
         /\ (ret.op = "extend" => ret.before = <<>>)) =>
        LET iter == ret.arg
            kept == FirstOfTheirKind(iter)
        IN  /\ PairwiseDistinct(iter) =>
                   \A other \in Orders(iter) :
                       FromIter(other) = records
            /\ { records[k] : k \in 1..Len(records) }
                   = { iter[i] : i \in kept }
            /\ Len(records) = Cardinality(kept)
            /\ \A i \in 1..Len(iter) :
                   LET res == InsertRecord(FromIter(SubSeq(iter, 1, i - 1)),
                                           iter[i])
                   IN  (i \notin kept) <=>
                           (res.out.tag = "Err" /\ res.out.record = iter[i])

\* a store built from three distinct records handed over neither in
\* ascending nor in descending order
C21_Witness ==
    /\ ret.op = "from_iter"
    /\ Len(ret.arg) = 3
    /\ PairwiseDistinct(ret.arg)
    /\ CanonicalCmp(ret.arg[1], ret.arg[2]) = 1
    /\ CanonicalCmp(ret.arg[2], ret.arg[3]) = -1
    /\ Len(records) = 3

----------------------------------------------------------------------------
(* Properties of search_host *)

\* the names the suffixes of a search list give, in list order, those left
\* out that the name cannot be chained to
RECURSIVE Chained(_)
Chained(search) ==
    IF search = <<>> THEN <<>>
    ELSE LET name == Chain(QName, Head(search))
         IN  name \o Chained(Tail(search))

\* the number of lookups begun so far: each begins with its two queries
Lookups == Cardinality({ i \in 1..Len(wire) : wire[i].kind = "query" }) \div 2

\* the place in wire of the first query of the k-th lookup
At(k) == 3 * (k - 1) + 1

\* the join of the k-th lookup has returned
Complete(k) == Len(wire) >= At(k) + 2

\* the result the k-th lookup got for its query of type rtype
AnswerOf(k, rtype) ==
    IF rtype = RtypeA THEN wire[At(k) + 2].a ELSE wire[At(k) + 2].aaaa

\* the k-th lookup failed: both of its queries did
Failed(k) ==
    AnswerOf(k, RtypeA).tag = "Err" /\ AnswerOf(k, RtypeAaaa).tag = "Err"

\* the k-th lookup got a record in one of its answers
NonEmpty(k) ==
    \E rtype \in {RtypeA, RtypeAaaa} :
        AnswerOf(k, rtype).tag = "Ok" /\ AnswerOf(k, rtype).ancount > 0

\* what the k-th lookup hands back: the error of the AAAA query if both
\* queries failed, else the two results
ResultOf(k) ==
    IF Failed(k)
    THEN [tag |-> "Err", err |-> AnswerOf(k, RtypeAaaa)]
    ELSE [tag |-> "Ok", hosts |-> [aaaa |-> AnswerOf(k, RtypeAaaa),
                                   a |-> AnswerOf(k, RtypeA)]]

\* C22: search_host looks the name up under the suffixes of the search list
\* in list order and then chained to the root, one lookup at a time; each
\* lookup makes its A and its AAAA query before it takes an answer to
\* either; a lookup is followed by another one only if it failed or came
\* back empty; the result is that of the first suffix lookup with a
\* non-empty answer, else that of the lookup of the name chained to the
\* root, which is an error only if both queries failed, and then the error
\* of the AAAA query.
C22_SearchHost ==
    task.pc # "idle" =>
        LET names == Chained(resolver.search) \o <<ChainRoot(QName)>>
            root == Len(names)
        IN  /\ Lookups <= root
            /\ \A i \in 1..Len(wire) :
                   wire[i].kind = (IF (i - 1) % 3 < 2 THEN "query" ELSE "join")
            /\ \A k \in 1..Lookups :
                   /\ Len(wire) >= At(k) + 1
                   /\ wire[At(k)].name = names[k]
                   /\ wire[At(k)].rtype = RtypeA
                   /\ wire[At(k) + 1].name = names[k]
                   /\ wire[At(k) + 1].rtype = RtypeAaaa
                   /\ Complete(k) =>
                          \A rtype \in {RtypeA, RtypeAaaa} :
                              /\ AnswerOf(k, rtype).name = names[k]
                              /\ AnswerOf(k, rtype).rtype = rtype
                   /\ k < Lookups =>
                          Complete(k) /\ (Failed(k) \/ ~NonEmpty(k))
            /\ (task.pc \in {"await", "await_root"}
                    /\ (task.a # None \/ task.aaaa # None)) =>
                   /\ Lookups >= 1
                   /\ ~Complete(Lookups)
                   /\ task.name = Some(names[Lookups])
            /\ (task.pc = "done") <=> (task.result # None)
            /\ task.pc = "done" =>
                   /\ Lookups >= 1
                   /\ Complete(Lookups)
                   /\ task.result = Some(ResultOf(Lookups))
                   /\ Lookups < root => NonEmpty(Lookups)
            /\ (Lookups >= 1 /\ Lookups < root /\ Complete(Lookups)
                    /\ NonEmpty(Lookups)) =>
                   task.pc = "done"

\* a search that left out a suffix the name cannot be chained to, passed
\* over a lookup that failed and returned the answer of the next one, whose
\* A query had failed, with a suffix of the list still untried
C22_Witness ==
    /\ task.pc = "done"
    /\ Len(resolver.search) = 3
    /\ \E s \in SearchPool : ~s.fits /\ resolver.search[1] = s
    /\ Lookups = 2
    /\ Failed(1)
    /\ AnswerOf(2, RtypeA).tag = "Err"
    /\ task.result[1].tag = "Ok"
    /\ wire[At(2)].name # wire[At(1)].name

====
